---- MODULE Spec2Model ----
(***************************************************************************)
(* Model of package ratelimit (gogolfing/ratelimit): a Limiter is a        *)
(* buffered channel `values` of capacity `capacity`, followed by a pacing  *)
(* gate (mutex `lock` guarding the watermark `nextTime`).                  *)
(*                                                                         *)
(* Every goroutine of Procs may call Push and Pop/PopOk; Close, which      *)
(* never blocks and keeps nothing between its steps, is called by any      *)
(* goroutine, of Procs or not, any number of times.  One action is one     *)
(* atomic step of the Go code.  The channel follows the Go language        *)
(* semantics: a send blocks while the buffer is full, a receive blocks     *)
(* while it is empty, send and close on a closed channel panic (recovered  *)
(* into ErrClosed), a receive on a closed empty channel yields             *)
(* (nil, false).  Push and Close have nothing between their channel        *)
(* operation and their return, so the operation and the return are one     *)
(* step; PopOk has the pacing gate in between, and its return is a step of *)
(* its own.  Pop is PopOk with the second result dropped.                  *)
(*                                                                         *)
(* Pushed values are the distinct tokens 1, 2, ... (the number of the Push *)
(* call), so that an order of values is an order of pushes.                *)
(*                                                                         *)
(* Time: instants are measured from the current instant, so time.Now() is  *)
(* 0 and a tick of the clock moves every stored instant (nextTime, the     *)
(* wake-up instants of the sleepers, the instant of the last release) one  *)
(* unit into the past.  Differences of instants, the only thing the        *)
(* program computes, are unchanged by this choice of origin.               *)
(***************************************************************************)
EXTENDS Integers, Sequences, FiniteSets, TLC

\* ---- bounds of the model ----
NumProcs == 2
MaxCap == 2
MaxD == 1
MaxPush == 2
MaxPop == 2

\* ---- program constants ----
DefaultCapacity == 1
Nil == 0

\* time.Now(): the current instant is the origin of time
Now == 0

Procs == 1..NumProcs
Durations == 1..MaxD

VARIABLES
    values,      \* l.values: the buffered contents of the channel, oldest first
    closed,      \* whether close(l.values) has taken effect
    capacity,    \* cap(l.values)
    nextTime,    \* l.nextTime (an instant: negative when in the past)
    d,           \* l.d
    lock,        \* l.lock: 0 when free, else the goroutine holding it
    pc,          \* pc[p]: where goroutine p is
    val,         \* val[p]: Push's argument, or the v received by PopOk
    ok,          \* ok[p]: the ok received by PopOk
    wake,        \* wake[p]: earliest instant at which p's time.Sleep returns
    nPush, nPop, \* numbers of Push and Pop/PopOk calls made so far
    \* ---- history (observation only, never read by the program) ----
    stored,      \* values in the order their send succeeded
    rejected,    \* values whose Push returned ErrClosed
    dequeued,    \* values in the order they were received from the channel
    released,    \* values in the order they were returned with ok = true
    lastRel,     \* the instant of the latest such return (d in the past at most)
    closeNil,    \* number of Close calls that returned nil
    closeRefused,\* whether a Close call has returned ErrClosed
    atClose,     \* the buffer at the moment close took effect
    postClose,   \* results <<v, ok>> returned for receives made after close
    pushBlockedAtClose, \* arguments of the sends blocked when close took effect
    popBlockedAtClose,  \* goroutines blocked in the receive when close took effect
    popOverlap,  \* whether two Pop/PopOk calls were ever in progress at once
    callSt,      \* callSt[p]: state of the limiter when p called Pop/PopOk
    lateVals     \* arguments of the Push calls made after a Close returned nil

prog == <<values, closed, capacity, nextTime, d, lock>>
locals == <<pc, val, ok, wake>>
counts == <<nPush, nPop>>
hist == <<stored, rejected, dequeued, released, lastRel, closeNil, closeRefused,
          atClose, postClose, pushBlockedAtClose, popBlockedAtClose, popOverlap,
          callSt, lateVals>>
vars == <<prog, locals, counts, hist>>

Range(s) == {s[i] : i \in 1..Len(s)}
IsPrefix(s, t) == Len(s) <= Len(t) /\ \A i \in 1..Len(s) : s[i] = t[i]
Max(a, b) == IF a >= b THEN a ELSE b

\* the state of the limiter as a caller finds it
LimiterState == IF ~closed THEN "open"
                ELSE IF Len(values) > 0 THEN "pending" ELSE "drained"

----------------------------------------------------------------------------
\* NewCapacity(dd, c): the Limiter right after construction
NewCapacity(dd, c) ==
    /\ values = <<>> /\ closed = FALSE /\ capacity = c
    /\ nextTime = Now /\ d = dd /\ lock = 0

New(dd) == NewCapacity(dd, DefaultCapacity)

Init ==
    /\ \E dd \in Durations : New(dd) \/ \E c \in 1..MaxCap : NewCapacity(dd, c)
    /\ pc = [p \in Procs |-> "idle"]
    /\ val = [p \in Procs |-> Nil]
    /\ ok = [p \in Procs |-> FALSE]
    /\ wake = [p \in Procs |-> 0]
    /\ nPush = 0 /\ nPop = 0
    /\ stored = <<>> /\ rejected = {} /\ dequeued = <<>>
    /\ released = <<>> /\ lastRel = Now
    /\ closeNil = 0 /\ closeRefused = FALSE /\ atClose = <<>> /\ postClose = <<>>
    /\ pushBlockedAtClose = {} /\ popBlockedAtClose = {} /\ popOverlap = FALSE
    /\ callSt = [p \in Procs |-> "open"]
    /\ lateVals = {}

----------------------------------------------------------------------------
\* ---- Push ----

\* a send that also proceeds on a full buffer
CanSendOffByOne(buf, c) == Len(buf) <= c

\* a send on a buffered channel proceeds only while the buffer has room
CanSend(buf, c) == Len(buf) < c

\* p calls Push(value) and arrives at "l.values <- value"
PushCall(p) ==
    /\ pc[p] = "idle" /\ nPush < MaxPush
    /\ nPush' = nPush + 1
    /\ pc' = [pc EXCEPT ![p] = "send"]
    /\ val' = [val EXCEPT ![p] = nPush + 1]
    /\ lateVals' = IF closeNil > 0 THEN lateVals \cup {nPush + 1} ELSE lateVals
    /\ UNCHANGED <<prog, ok, wake, nPop, stored, rejected, dequeued,
                   released, lastRel, closeNil, closeRefused, atClose, postClose,
                   pushBlockedAtClose, popBlockedAtClose, popOverlap, callSt>>

\* a send that stores its value on the closed channel too
PushSendIgnoringClose(p) ==
    /\ pc[p] = "send" /\ CanSend(values, capacity)
    /\ values' = Append(values, val[p])
    /\ stored' = Append(stored, val[p])
    /\ pc' = [pc EXCEPT ![p] = "idle"]
    /\ val' = [val EXCEPT ![p] = Nil]
    /\ UNCHANGED <<closed, capacity, nextTime, d, lock, ok, wake, counts,
                   rejected, dequeued, released, lastRel, closeNil, closeRefused,
                   atClose, postClose, pushBlockedAtClose, popBlockedAtClose,
                   popOverlap, callSt, lateVals>>

\* a send that waits until no consumer holds a value
PushSendOutsideGate(p) ==
    /\ pc[p] = "send" /\ ~closed /\ CanSend(values, capacity)
    /\ \A q \in Procs : pc[q] \notin {"lock", "sleep", "popret"}
    /\ values' = Append(values, val[p])
    /\ stored' = Append(stored, val[p])
    /\ pc' = [pc EXCEPT ![p] = "idle"]
    /\ val' = [val EXCEPT ![p] = Nil]
    /\ UNCHANGED <<closed, capacity, nextTime, d, lock, ok, wake, counts,
                   rejected, dequeued, released, lastRel, closeNil, closeRefused,
                   atClose, postClose, pushBlockedAtClose, popBlockedAtClose,
                   popOverlap, callSt, lateVals>>

\* the send stores the value (the channel is open and has room); Push
\* returns nil
PushSend(p) ==
    /\ pc[p] = "send" /\ ~closed /\ CanSend(values, capacity)
    /\ values' = Append(values, val[p])
    /\ stored' = Append(stored, val[p])
    /\ pc' = [pc EXCEPT ![p] = "idle"]
    /\ val' = [val EXCEPT ![p] = Nil]
    /\ UNCHANGED <<closed, capacity, nextTime, d, lock, ok, wake, counts,
                   rejected, dequeued, released, lastRel, closeNil, closeRefused,
                   atClose, postClose, pushBlockedAtClose, popBlockedAtClose,
                   popOverlap, callSt, lateVals>>

\* a close that wakes no sender already blocked
PushPanicOnlyNewSenders(p) ==
    /\ pc[p] = "send" /\ closed /\ val[p] \notin pushBlockedAtClose
    /\ rejected' = rejected \cup {val[p]}
    /\ pc' = [pc EXCEPT ![p] = "idle"]
    /\ val' = [val EXCEPT ![p] = Nil]
    /\ UNCHANGED <<prog, ok, wake, counts, stored, dequeued, released, lastRel,
                   closeNil, closeRefused, atClose, postClose, pushBlockedAtClose,
                   popBlockedAtClose, popOverlap, callSt, lateVals>>

\* the send panics on the closed channel (also when it was blocked on a full
\* buffer at the close); the deferred recover makes Push return ErrClosed
PushPanic(p) ==
    /\ pc[p] = "send" /\ closed
    /\ rejected' = rejected \cup {val[p]}
    /\ pc' = [pc EXCEPT ![p] = "idle"]
    /\ val' = [val EXCEPT ![p] = Nil]
    /\ UNCHANGED <<prog, ok, wake, counts, stored, dequeued, released, lastRel,
                   closeNil, closeRefused, atClose, postClose, pushBlockedAtClose,
                   popBlockedAtClose, popOverlap, callSt, lateVals>>

----------------------------------------------------------------------------
\* ---- Pop, PopOk, waitAndBumpNextTime ----

\* where a goroutine inside Pop/PopOk can be
PopStates == {"recv", "lock", "sleep", "popret"}

\* p calls PopOk (directly or through Pop) and arrives at "v, ok := <-l.values"
PopOkCall(p) ==
    /\ pc[p] = "idle" /\ nPop < MaxPop
    /\ nPop' = nPop + 1
    /\ pc' = [pc EXCEPT ![p] = "recv"]
    /\ popOverlap' = (popOverlap \/ \E q \in Procs : pc[q] \in PopStates)
    /\ callSt' = [callSt EXCEPT ![p] = LimiterState]
    /\ UNCHANGED <<prog, val, ok, wake, nPush, stored, rejected, dequeued,
                   released, lastRel, closeNil, closeRefused, atClose, postClose,
                   pushBlockedAtClose, popBlockedAtClose, lateVals>>

\* what Pop hands to its caller of PopOk's results
Pop(v, isOk) == v

\* a receive that takes the newest buffered value
RecvValueNewest(buf) == buf[Len(buf)]

\* the receive takes the oldest buffered value (ok = true), open or closed
RecvValue(buf) == Head(buf)

\* a receive that leaves the received value in the buffer
RecvRestKeeping(buf) == buf

RecvRest(buf) == Tail(buf)

PopRecv(p) ==
    /\ pc[p] = "recv" /\ Len(values) > 0
    /\ val' = [val EXCEPT ![p] = RecvValue(values)]
    /\ ok' = [ok EXCEPT ![p] = TRUE]
    /\ values' = RecvRest(values)
    /\ dequeued' = Append(dequeued, RecvValue(values))
    /\ pc' = [pc EXCEPT ![p] = "lock"]
    /\ UNCHANGED <<closed, capacity, nextTime, d, lock, wake, counts,
                   stored, rejected, released, lastRel, closeNil, closeRefused,
                   atClose, postClose, pushBlockedAtClose, popBlockedAtClose,
                   popOverlap, callSt, lateVals>>

\* a close that wakes no receiver already blocked
PopRecvClosedOnlyNewReceivers(p) ==
    /\ pc[p] = "recv" /\ closed /\ Len(values) = 0 /\ p \notin popBlockedAtClose
    /\ val' = [val EXCEPT ![p] = Nil]
    /\ ok' = [ok EXCEPT ![p] = FALSE]
    /\ pc' = [pc EXCEPT ![p] = "popret"]
    /\ UNCHANGED <<prog, wake, counts, hist>>

\* a receive that gives up on an empty buffer, closed or not
PopRecvClosedOnEmpty(p) ==
    /\ pc[p] = "recv" /\ Len(values) = 0
    /\ val' = [val EXCEPT ![p] = Nil]
    /\ ok' = [ok EXCEPT ![p] = FALSE]
    /\ pc' = [pc EXCEPT ![p] = "popret"]
    /\ UNCHANGED <<prog, wake, counts, hist>>

\* the receive on the closed, empty channel yields (nil, false); PopOk goes
\* to "return nil, ok" without entering the gate
PopRecvClosed(p) ==
    /\ pc[p] = "recv" /\ closed /\ Len(values) = 0
    /\ val' = [val EXCEPT ![p] = Nil]
    /\ ok' = [ok EXCEPT ![p] = FALSE]
    /\ pc' = [pc EXCEPT ![p] = "popret"]
    /\ UNCHANGED <<prog, wake, counts, hist>>

\* time.Sleep(next.Sub(t)) called at instant t returns no earlier than
\* the duration after t, at once when the duration is not positive
SleepUntil(next, t) == t + Max(0, next - t)

\* a consumer that enters the gate without waiting for the lock
GateEnterNoLock(p) ==
    /\ pc[p] = "lock"
    /\ lock' = p
    /\ wake' = [wake EXCEPT ![p] = SleepUntil(nextTime, Now)]
    /\ pc' = [pc EXCEPT ![p] = "sleep"]
    /\ UNCHANGED <<values, closed, capacity, nextTime, d, val, ok, counts,
                   hist>>

\* l.lock.Lock() succeeds and time.Sleep(l.nextTime.Sub(time.Now())) begins
GateEnter(p) ==
    /\ pc[p] = "lock" /\ lock = 0
    /\ lock' = p
    /\ wake' = [wake EXCEPT ![p] = SleepUntil(nextTime, Now)]
    /\ pc' = [pc EXCEPT ![p] = "sleep"]
    /\ UNCHANGED <<values, closed, capacity, nextTime, d, val, ok, counts,
                   hist>>

\* a bump that subtracts the interval
BumpedTimeBackwards(t, dd) == t - dd

\* a bump measured from the previous nextTime
BumpedFromWatermark(t, dd) == nextTime + dd

\* time.Now().Add(l.d)
BumpedTime(t, dd) == t + dd

\* a consumer that leaves the gate without unlocking
GateLeaveKeepingLock(p) ==
    /\ pc[p] = "sleep" /\ lock = p /\ Now >= wake[p]
    /\ nextTime' = BumpedTime(Now, d)
    /\ wake' = [wake EXCEPT ![p] = 0]
    /\ pc' = [pc EXCEPT ![p] = "popret"]
    /\ UNCHANGED <<values, closed, capacity, d, lock, val, ok, counts, hist>>

\* the sleep is over: l.nextTime = time.Now().Add(l.d), then the deferred
\* l.lock.Unlock()
GateLeave(p) ==
    /\ pc[p] = "sleep" /\ lock = p /\ Now >= wake[p]
    /\ nextTime' = BumpedTime(Now, d)
    /\ lock' = 0
    /\ wake' = [wake EXCEPT ![p] = 0]
    /\ pc' = [pc EXCEPT ![p] = "popret"]
    /\ UNCHANGED <<values, closed, capacity, d, val, ok, counts, hist>>

\* PopOk returns (v, ok) to its caller
PopReturn(p) ==
    /\ pc[p] = "popret"
    /\ released' = IF ok[p] THEN Append(released, val[p]) ELSE released
    /\ lastRel' = IF ok[p] THEN Now ELSE lastRel
    /\ postClose' = IF ~ok[p] \/ val[p] \in Range(atClose)
                    THEN Append(postClose, <<val[p], ok[p]>>)
                    ELSE postClose
    /\ pc' = [pc EXCEPT ![p] = "idle"]
    /\ val' = [val EXCEPT ![p] = Nil]
    /\ ok' = [ok EXCEPT ![p] = FALSE]
    /\ callSt' = [callSt EXCEPT ![p] = "open"]
    /\ UNCHANGED <<prog, wake, counts, stored, rejected, dequeued, closeNil,
                   closeRefused, atClose, pushBlockedAtClose, popBlockedAtClose,
                   popOverlap, lateVals>>

----------------------------------------------------------------------------
\* ---- Close ----

\* a close that throws the buffered values away
CloseDoDiscarding ==
    /\ ~closed
    /\ closed' = TRUE
    /\ values' = <<>>
    /\ closeNil' = closeNil + 1
    /\ atClose' = values
    /\ pushBlockedAtClose' =
          {val[q] : q \in {r \in Procs : pc[r] = "send" /\ ~CanSend(values, capacity)}}
    /\ popBlockedAtClose' =
          {q \in Procs : pc[q] = "recv" /\ Len(values) = 0}
    /\ UNCHANGED <<capacity, nextTime, d, lock, locals, nPush, nPop,
                   stored, rejected, dequeued, released, lastRel, closeRefused,
                   postClose, popOverlap, callSt, lateVals>>

\* a close that first waits for the gate lock
CloseDoTakingLock ==
    /\ ~closed /\ lock = 0
    /\ closed' = TRUE
    /\ closeNil' = closeNil + 1
    /\ atClose' = values
    /\ pushBlockedAtClose' =
          {val[q] : q \in {r \in Procs : pc[r] = "send" /\ ~CanSend(values, capacity)}}
    /\ popBlockedAtClose' =
          {q \in Procs : pc[q] = "recv" /\ Len(values) = 0}
    /\ UNCHANGED <<values, capacity, nextTime, d, lock, locals, nPush, nPop,
                   stored, rejected, dequeued, released, lastRel, closeRefused,
                   postClose, popOverlap, callSt, lateVals>>

\* close(l.values) on the open channel: the buffer is kept, the blocked
\* senders and receivers are woken; Close returns nil
CloseDo ==
    /\ ~closed
    /\ closed' = TRUE
    /\ closeNil' = closeNil + 1
    /\ atClose' = values
    /\ pushBlockedAtClose' =
          {val[q] : q \in {r \in Procs : pc[r] = "send" /\ ~CanSend(values, capacity)}}
    /\ popBlockedAtClose' =
          {q \in Procs : pc[q] = "recv" /\ Len(values) = 0}
    /\ UNCHANGED <<values, capacity, nextTime, d, lock, locals, nPush, nPop,
                   stored, rejected, dequeued, released, lastRel, closeRefused,
                   postClose, popOverlap, callSt, lateVals>>

\* a second close that is not reported
ClosePanicSwallowed ==
    /\ closed
    /\ closeNil' = closeNil + 1
    /\ UNCHANGED <<prog, locals, nPush, nPop, stored, rejected, dequeued,
                   released, lastRel, closeRefused, atClose, postClose,
                   pushBlockedAtClose, popBlockedAtClose, popOverlap, callSt,
                   lateVals>>

\* close(l.values) on the closed channel panics; the deferred recover makes
\* Close return ErrClosed
ClosePanic ==
    /\ closed
    /\ closeRefused' = TRUE
    /\ UNCHANGED <<prog, locals, nPush, nPop, stored, rejected, dequeued,
                   released, lastRel, closeNil, atClose, postClose,
                   pushBlockedAtClose, popBlockedAtClose, popOverlap, callSt,
                   lateVals>>

----------------------------------------------------------------------------
\* an instant t one tick later, kept no further in the past than floor
Aged(t, floor) == Max(t - 1, floor)

\* the clock advances by one unit.  The program reads the clock only to
\* compare it with nextTime, so the clock is followed until it has passed
\* nextTime (a sleeper still waiting has Now < wake[p] <= nextTime) and no
\* further.
Tick ==
    /\ Now <= nextTime
    /\ nextTime' = nextTime - 1
    /\ wake' = [p \in Procs |->
                 IF pc[p] = "sleep" THEN Aged(wake[p], Now) ELSE wake[p]]
    /\ lastRel' = IF released = <<>> THEN lastRel ELSE Aged(lastRel, Now - d)
    /\ UNCHANGED <<values, closed, capacity, d, lock, pc, val, ok, counts,
                   stored, rejected, dequeued, released, closeNil, closeRefused,
                   atClose, postClose, pushBlockedAtClose, popBlockedAtClose,
                   popOverlap, callSt, lateVals>>

\* the steps a goroutine takes once it is inside a call
Internal(p) ==
    \/ PushSend(p) \/ PushPanic(p)
    \/ PopRecv(p) \/ PopRecvClosed(p)
    \/ GateEnter(p) \/ GateLeave(p)
    \/ PopReturn(p)

Next ==
    \/ \E p \in Procs :
          \/ PushCall(p) \/ PopOkCall(p) \/ Internal(p)
    \/ CloseDo \/ ClosePanic
    \/ Tick

Spec == Init /\ [][Next]_vars

\* the scheduler runs every goroutine that can take a step, and time passes
FairSpec == Spec /\ (\A p \in Procs : WF_vars(Internal(p))) /\ WF_vars(Tick)

----------------------------------------------------------------------------
\* ---- properties ----

\* p is inside Push and can neither store its value nor fail
PushBlocked(p) ==
    pc[p] = "send" /\ ~ENABLED PushSend(p) /\ ~ENABLED PushPanic(p)

\* C1: the n-th value whose Push succeeds is the n-th value returned by
\* Pop/PopOk, for any number of interleaved producers and consumers: the
\* sequence of returned values is a prefix of the sequence of stored values.
C1_ReturnOrderIsStoreOrder == IsPrefix(released, stored)

\* C2: between two consecutive successful Pop/PopOk returns, by the same or
\* by different consumers, at least the interval d passes.
C2_ReturnGapAtLeastInterval ==
    [][(Len(released') > Len(released) /\ Len(released) > 0) =>
          Now - lastRel >= d]_vars

\* C3: the number of values stored in the buffer and not yet dequeued never
\* exceeds the capacity given at construction.
C3_BufferWithinCapacity ==
    /\ Len(values) <= capacity
    /\ Len(stored) - Len(dequeued) <= capacity

\* a Push is waiting on a buffer that is full
C3_Witness ==
    /\ Len(values) = capacity
    /\ Len(stored) - Len(dequeued) = capacity
    /\ \E p \in Procs : pc[p] = "send"

\* C4: on an open queue a Push blocks exactly when the buffer holds capacity
\* values; the first capacity pushes complete with no consumer, and a further
\* push neither stores nor returns before a value is dequeued or the queue is
\* closed.
C4_PushBlocksExactlyWhenFull ==
    /\ [](\A p \in Procs :
            (pc[p] = "send" /\ ~closed) =>
                /\ PushBlocked(p) <=> (Len(values) = capacity)
                /\ (Len(dequeued) = 0 /\ Len(stored) < capacity) => ENABLED PushSend(p))
    /\ [][\A p \in Procs :
            (pc[p] = "send" /\ pc'[p] # "send" /\ ~closed) =>
                /\ stored' = Append(stored, val[p])
                /\ Len(stored') <= Len(dequeued) + capacity]_vars

\* capacity pushes were stored with no consumer, and one more push waits
C4_Witness ==
    /\ ~closed /\ Len(dequeued) = 0 /\ nPop = 0
    /\ Len(stored) = capacity
    /\ \E p \in Procs : PushBlocked(p)

\* C5: after a Close has returned nil, every Push started afterwards returns
\* ErrClosed without blocking, whatever the buffer holds, and its value is
\* never stored nor returned by a Pop.
C5_ClosedRejectsPush ==
    /\ \A p \in Procs :
          (pc[p] = "send" /\ val[p] \in lateVals) =>
              ENABLED PushPanic(p) /\ ~ENABLED PushSend(p)
    /\ lateVals \cap (Range(stored) \cup Range(values) \cup Range(dequeued)
                        \cup Range(released)) = {}
    /\ \A v \in lateVals :
          (\A p \in Procs : ~(pc[p] = "send" /\ val[p] = v)) => v \in rejected

\* a Push made after the close was rejected while the buffer held values
C5_Witness ==
    /\ lateVals \cap rejected # {}
    /\ Len(values) > 0

\* C6: across all Close calls exactly one, the first to take effect, returns
\* nil; every other Close returns ErrClosed and changes no state.
C6_ExactlyOneCloseSucceeds ==
    /\ [](/\ closeNil = (IF closed THEN 1 ELSE 0)
          /\ closeRefused => closeNil = 1)
    /\ [][closeRefused' # closeRefused =>
            UNCHANGED <<prog, locals, stored, dequeued, released, atClose>>]_vars

\* a Close was refused after another had succeeded
C6_Witness == closeNil = 1 /\ closeRefused

\* the results a single consumer must get for its receives after the close
DrainResult(i) == IF i <= Len(atClose) THEN <<atClose[i], TRUE>>
                  ELSE <<Nil, FALSE>>

\* C7: Close keeps the buffered values: with a single consumer (no two
\* Pop/PopOk calls ever in progress at once), the PopOk
\* calls after the close return the values buffered at the close, in order,
\* each with ok = true, and then (nil, false) for ever.
C7_CloseDrainsThenEnds ==
    (closed /\ ~popOverlap) =>
        \A i \in 1..Len(postClose) : postClose[i] = DrainResult(i)

\* a single consumer drained a buffer closed with values in it and then got
\* (nil, false)
C7_Witness ==
    /\ closed /\ ~popOverlap
    /\ Len(atClose) >= 1
    /\ Len(postClose) > Len(atClose)

\* C8: a Push blocked on a full buffer when Close takes effect is woken,
\* returns ErrClosed and never stores its value; after Close no Push stays
\* blocked.
C8_CloseWakesBlockedPush ==
    /\ [](pushBlockedAtClose \cap (Range(stored) \cup Range(values)) = {})
    /\ \A v \in 1..MaxPush :
          (v \in pushBlockedAtClose) ~> (v \in rejected)
    /\ \A p \in Procs : (closed /\ pc[p] = "send") ~> (pc[p] = "idle")

\* a Push that was blocked at the close has returned ErrClosed
C8_Witness ==
    /\ pushBlockedAtClose # {}
    /\ pushBlockedAtClose \subseteq rejected

\* C9: every Pop/PopOk blocked on an empty buffer when Close takes effect is
\* woken and returns (nil, false); with several blocked at once all return.
C9_CloseWakesBlockedPop ==
    /\ [](\A p \in popBlockedAtClose :
            pc[p] = "popret" => (val[p] = Nil /\ ~ok[p]))
    /\ \A p \in Procs :
          (p \in popBlockedAtClose /\ pc[p] = "recv") ~> (pc[p] = "idle")

\* two consumers were blocked at the close and both have returned
C9_Witness ==
    /\ Cardinality(popBlockedAtClose) >= 2
    /\ \A p \in popBlockedAtClose : pc[p] = "idle"
    /\ Len(postClose) >= 2

Holding ==
    {p \in Procs : pc[p] \in {"lock", "sleep", "popret"} /\ ok[p]}

\* no element of s occurs twice
NoDup(s) ==
    \A i, j \in 1..Len(s) : i # j => s[i] # s[j]

\* C11: each stored value is returned by at most one Pop/PopOk call, and
\* every value returned with ok = true was stored by a successful Push: no
\* value is returned twice, invented, or held by two consumers at once.
C11_NoDuplicateNoInvention ==
    /\ NoDup(dequeued)
    /\ NoDup(released)
    /\ Range(released) \subseteq Range(stored)
    /\ Range(released) \cap Range(values) = {}
    /\ \A p \in Holding :
          /\ val[p] \in Range(stored)
          /\ val[p] \notin Range(released)
          /\ val[p] \notin Range(values)
          /\ \A q \in Holding : q # p => val[q] # val[p]

\* two values pushed by the program have been returned to overlapping
\* consumers
C11_Witness ==
    /\ Len(released) = 2
    /\ popOverlap

\* C12: closing is one-way and the closed, drained limiter is terminal: once
\* closed, no step opens the limiter again or stores a value in the buffer;
\* once closed with an empty buffer, every later Push, Pop/PopOk and Close
\* leaves it closed and empty.
C12_ClosedIsTerminal ==
    [][/\ closed => /\ closed'
                    /\ stored' = stored
                    /\ Len(values') <= Len(values)
       /\ LimiterState = "drained" => LimiterState' = "drained"]_vars

\* on the closed, drained limiter a Push was made and refused, a Close was
\* refused and a PopOk returned (nil, false)
C12_Witness ==
    /\ LimiterState = "drained"
    /\ lateVals \cap rejected # {}
    /\ closeRefused
    /\ \E i \in 1..Len(postClose) : postClose[i] = <<Nil, FALSE>>

\* C13: nextTime never decreases: the only step that writes it is a
\* consumer that dequeued a value leaving the gate, and the instant it
\* stores is no earlier than the one it replaces.  (Tick writes no field of
\* the limiter: it moves the origin from which the same instant is
\* measured.)
C13_NextTimeNeverDecreases ==
    [][\/ Tick
       \/ nextTime' = nextTime
       \/ \E p \in Procs : /\ pc[p] = "sleep" /\ ok[p] /\ lock = p
                           /\ pc'[p] = "popret"
                           /\ nextTime' >= nextTime]_vars

\* a second consumer has just passed the gate and written nextTime
C13_Witness ==
    /\ Len(released) >= 1
    /\ \E p \in Procs : pc[p] = "popret" /\ ok[p]
    /\ nextTime = Now + d

\* as many PopOk calls are waiting to receive as there are buffered values
EnoughReceivers ==
    Cardinality({p \in Procs : pc[p] = "recv"}) >= Len(values)

\* C14: once Close has been called and consumers keep calling PopOk (here:
\* a PopOk call is waiting for every buffered value), with weak fairness on
\* the consumers' steps, the gate lock and the clock: every stored value
\* is eventually returned, the limiter becomes closed and empty, no PopOk
\* call in progress on the closed limiter stays blocked, and on the closed,
\* empty limiter a PopOk can return at once and returns (nil, false).
C14_DrainCompletes ==
    /\ (closed /\ EnoughReceivers) ~>
          (LimiterState = "drained" /\ Range(released) = Range(stored))
    /\ \A p \in Procs : (closed /\ pc[p] \in PopStates) ~> (pc[p] = "idle")
    /\ [](LimiterState = "drained" =>
            \A p \in Procs :
                /\ pc[p] = "recv" => ENABLED PopRecvClosed(p)
                /\ (pc[p] = "popret" /\ callSt[p] = "drained") =>
                      (val[p] = Nil /\ ~ok[p]))

\* the value buffered at the close was returned, every stored value has
\* been returned, and a later PopOk returned (nil, false)
C14_Witness ==
    /\ LimiterState = "drained"
    /\ Len(atClose) = 1
    /\ Range(released) = Range(stored)
    /\ \E i \in 1..Len(postClose) : postClose[i] = <<atClose[1], TRUE>>
    /\ \E i \in 1..Len(postClose) : postClose[i] = <<Nil, FALSE>>

\* the number of times a consumer has left the gate, i.e. written nextTime
GatePassages ==
    Len(released) + Cardinality({p \in Procs : pc[p] = "popret" /\ ok[p]})

\* the instant of the latest write of nextTime, which stored that instant
\* plus d
LastBump == nextTime - d

\* C15: the gate is one critical section: at most one consumer is between
\* Lock and Unlock; while it is there no other consumer enters (reads
\* nextTime) or leaves (writes nextTime); and a consumer writes nextTime at
\* least d after the previous consumer wrote it.
C15_GateIsCriticalSection ==
    /\ [](/\ Cardinality({p \in Procs : pc[p] = "sleep"}) <= 1
          /\ \A p \in Procs : pc[p] = "sleep" <=> lock = p)
    /\ [][\A p, q \in Procs :
            (pc[p] = "sleep" /\ q # p) =>
                /\ ~(pc[q] = "lock" /\ pc'[q] = "sleep")
                /\ ~(pc[q] = "sleep" /\ pc'[q] = "popret")
                /\ (pc'[p] = "sleep" => nextTime' = nextTime \/ Tick)]_vars
    /\ [][\A p \in Procs :
            (pc[p] = "sleep" /\ pc'[p] = "popret" /\ GatePassages > 0) =>
                Now - LastBump >= d]_vars

\* one consumer is inside the gate while another, holding a value too, waits
\* for the lock
C15_Witness ==
    \E p, q \in Holding : pc[p] = "sleep" /\ pc[q] = "lock"

\* C16: PopOk returns ok = false only when, at its receive, the limiter is
\* closed and the buffer is empty; while the limiter is open, or closed with
\* values still buffered, no receive yields the no-value result; and every
\* result is either a stored value with ok = true or (nil, false), never an
\* error.
C16_NoValueOnlyWhenDrained ==
    /\ [](\A p \in Procs :
            /\ (pc[p] = "popret" /\ ~ok[p]) =>
                  (LimiterState = "drained" /\ Pop(val[p], ok[p]) = Nil)
            /\ (pc[p] = "popret" /\ ok[p]) => val[p] \in Range(stored)
            /\ (pc[p] = "recv" /\ LimiterState # "drained") =>
                  ~ENABLED PopRecvClosed(p))
    /\ [][\A p \in Procs :
            (pc[p] = "recv" /\ pc'[p] = "popret" /\ ~ok'[p]) =>
                (closed /\ values = <<>>)]_vars

\* a PopOk called on the open limiter is about to return (nil, false)
C16_Witness ==
    \E p \in Procs : pc[p] = "popret" /\ ~ok[p] /\ callSt[p] = "open"

\* C17: a value leaves the buffer before the pacing wait: the receive frees
\* its slot without touching the gate, a Push with room can store while
\* consumers hold values in or before the gate, and the values stored but
\* not yet returned are the buffered ones plus one per such consumer, so
\* they exceed the capacity by at most the number of those consumers.
C17_SlotFreedBeforeWait ==
    /\ [](/\ Len(stored) - Len(released) = Len(values) + Cardinality(Holding)
          /\ Len(stored) - Len(released) <= capacity + Cardinality(Holding)
          /\ \A q \in Procs :
                (pc[q] = "send" /\ ~closed /\ Len(values) < capacity) =>
                    ENABLED PushSend(q))
    /\ [][\A p \in Procs :
            (pc[p] = "recv" /\ pc'[p] = "lock") =>
                /\ Len(values') = Len(values) - 1
                /\ lock' = lock /\ nextTime' = nextTime]_vars

\* a consumer holds a value in or before the gate, nothing has been
\* returned, and a Push has filled the buffer again: more values are
\* outstanding than the capacity
C17_Witness ==
    /\ \E p \in Holding : pc[p] \in {"lock", "sleep"}
    /\ released = <<>>
    /\ Len(values) = capacity
    /\ Len(stored) - Len(released) > capacity

\* C18: values leave the buffer in the order they entered it: the sequence
\* of dequeued values is a prefix of the sequence of stored values, the
\* buffer holds the rest, and a single consumer popping sequentially
\* returns the stored values in order.
C18_DequeueOrderIsStoreOrder ==
    /\ IsPrefix(dequeued, stored)
    /\ stored = dequeued \o values
    /\ ~popOverlap => IsPrefix(released, stored)

\* two values were buffered together and then popped one call after the
\* other
C18_Witness ==
    /\ Len(atClose) = 2
    /\ ~popOverlap
    /\ Len(released) = 2

\* C19: pacing is keyed off the instants at which consumers pass the gate:
\* a consumer that enters the gate when now >= nextTime is not delayed (its
\* sleep ends at once), and every consumer leaving the gate sets nextTime
\* to its own passage instant plus d, whatever nextTime was.
C19_PacedFromPassage ==
    /\ [][\A p \in Procs :
            (pc[p] = "lock" /\ pc'[p] = "sleep" /\ Now >= nextTime) =>
                wake'[p] = Now]_vars
    /\ [](\A p \in Procs :
            (pc[p] = "sleep" /\ wake[p] <= Now) => ENABLED GateLeave(p))
    /\ [][\A p \in Procs :
            (pc[p] = "sleep" /\ pc'[p] = "popret") =>
                /\ nextTime' = Now + d
                /\ Now > nextTime => nextTime' # nextTime + d]_vars

\* after an earlier return, a consumer is inside the gate later than
\* nextTime and is not made to wait
C19_Witness ==
    /\ Len(released) >= 1
    /\ \E p \in Procs : pc[p] = "sleep" /\ Now > nextTime /\ wake[p] = Now

\* C20: a consumer that has dequeued a value when Close takes effect keeps
\* it and returns it with ok = true: the close changes no consumer's
\* position or result, nor the lock, nor nextTime; a value dequeued before
\* the close (one not buffered at the close) is returned as a value; and
\* Close does not wait for the gate lock: it can act whoever holds the lock.
C20_CloseKeepsHeldValues ==
    /\ [][closed' # closed => UNCHANGED <<lock, nextTime, pc, val, ok, wake>>]_vars
    /\ [](\A p \in Procs :
            pc[p] \in {"lock", "sleep"} =>
                (ok[p] /\ val[p] # Nil /\ val[p] \in Range(dequeued)))
    /\ [][\A p \in Procs :
            (/\ closed /\ pc[p] = "popret" /\ pc'[p] = "idle"
             /\ val[p] \in Range(dequeued) \ Range(atClose)) =>
                (ok[p] /\ released' = Append(released, val[p]))]_vars
    /\ [](lock # 0 => IF closed THEN ENABLED ClosePanic ELSE ENABLED CloseDo)

\* the limiter was closed while a consumer held a value, dequeued before the
\* close, inside the gate
C20_Witness ==
    /\ closed
    /\ \E p \in Holding :
          pc[p] = "sleep" /\ lock = p /\ val[p] \notin Range(atClose)
====
